---- MODULE Spec2Model ----
(***************************************************************************)
(* Model of chunker.py (TableAwareChunker): cross-page table merging and   *)
(* table-aware chunking.                                                   *)
(*                                                                         *)
(* A Python str is a sequence of one-character strings; "\n" is the line   *)
(* break.  An Optional[str] is either such a sequence or None.  A dict is  *)
(* a record (a function on its keys); `pending`, which is a dict or None   *)
(* in the code, is a sequence holding zero or one record.                  *)
(***************************************************************************)
EXTENDS Integers, Sequences, FiniteSets, TLC

VARIABLES
    pages,                 \* process_pages / merge_cross_page_tables argument
    max_chunk_size,        \* self.max_chunk_size
    overlap,               \* self.overlap
    result,                \* value returned by a helper method called on its own
    pc,                    \* position: "merge", "groups", "scan", "return", "done";
                           \* "call", then the helper's name, for a helper call
    idx,                   \* merge loop: number of pages already consumed
    merged,                \* merge_cross_page_tables: merged
    pending,               \* merge_cross_page_tables: pending (<<>> is None)
    gi,                    \* process_pages loop: number of groups already chunked
    all_chunks,            \* process_pages: all_chunks
    text,                  \* chunk_with_table_context argument
    metadata,              \* chunk_with_table_context argument
    lines,                 \* chunk_with_table_context: lines
    i,                     \* chunk_with_table_context: i
    current_section,       \* chunk_with_table_context: current_section
    current_table_header,  \* chunk_with_table_context: current_table_header
    current_chunk_lines,   \* chunk_with_table_context: current_chunk_lines
    current_size,          \* chunk_with_table_context: current_size
    chunks                 \* chunk_with_table_context: chunks

vars == <<pages, max_chunk_size, overlap, result, pc, idx, merged, pending, gi,
          all_chunks, text, metadata, lines, i, current_section, current_table_header,
          current_chunk_lines, current_size, chunks>>

mergeVars == <<idx, merged, pending>>
chunkVars == <<text, metadata, lines, i, current_section, current_table_header,
               current_chunk_lines, current_size, chunks>>

----------------------------------------------------------------------------
(* Strings *)

NL == "\n"
None == <<"None">>

\* The whitespace characters of the modelled alphabet (str.strip, regex \s).
IsSpace(c) == c \in {" ", NL}

RECURSIVE LStrip(_)
LStrip(s) == IF s # <<>> /\ IsSpace(Head(s)) THEN LStrip(Tail(s)) ELSE s

RECURSIVE RStrip(_)
RStrip(s) ==
    IF s # <<>> /\ IsSpace(s[Len(s)]) THEN RStrip(SubSeq(s, 1, Len(s) - 1)) ELSE s

\* str.strip()
Strip(s) == RStrip(LStrip(s))

\* str.lstrip("#")
RECURSIVE LStripHash(_)
LStripHash(s) == IF s # <<>> /\ Head(s) = "#" THEN LStripHash(Tail(s)) ELSE s

\* str.startswith(c) for a one-character prefix
StartsWith(s, c) == s # <<>> /\ Head(s) = c

\* c in s
Contains(s, c) == \E k \in 1..Len(s) : s[k] = c

\* Index of the first "\n" of s, or 0.
RECURSIVE FirstNL(_, _)
FirstNL(s, k) ==
    IF k > Len(s) THEN 0 ELSE IF s[k] = NL THEN k ELSE FirstNL(s, k + 1)

\* str.split("\n"): always at least one line.
RECURSIVE Split(_)
Split(s) ==
    LET k == FirstNL(s, 1) IN
    IF k = 0 THEN <<s>>
    ELSE <<SubSeq(s, 1, k - 1)>> \o Split(SubSeq(s, k + 1, Len(s)))

\* "\n".join(ls)
RECURSIVE Join(_)
Join(ls) ==
    IF ls = <<>> THEN <<>>
    ELSE IF Len(ls) = 1 THEN ls[1]
    ELSE ls[1] \o <<NL>> \o Join(Tail(ls))

\* Python truthiness of an Optional[str]
Truthy(s) == s # None /\ s # <<>>

----------------------------------------------------------------------------
(* Line predicates *)

is_table_row(line) == Contains(line, "|") /\ StartsWith(Strip(line), "|")

\* re.match(r"^\|[\s\-:]+\|", s): "|", then one or more of whitespace, "-",
\* ":", then "|".  Nothing is required of what follows the second "|".
SepClass(c) == IsSpace(c) \/ c \in {"-", ":"}

MatchSeparator(s) ==
    /\ StartsWith(s, "|")
    /\ \E k \in 3..Len(s) :
          /\ s[k] = "|"
          /\ \A j \in 2..(k - 1) : SepClass(s[j])

is_table_separator(line) == MatchSeparator(Strip(line))

is_table_header(line, next_line) ==
    IF ~is_table_row(line) THEN FALSE
    ELSE IF Truthy(next_line) /\ is_table_separator(next_line) THEN TRUE
    ELSE FALSE

\* The loop of _is_table_continuation over lines[:5]: the result is
\* <<verdict, table_rows>>, verdict "heading" for the early return False.
RECURSIVE ScanLeading(_, _, _)
ScanLeading(ls, k, rows) ==
    IF k > Len(ls) \/ k > 5 THEN <<"end", rows>>
    ELSE LET line == Strip(ls[k]) IN
         IF line = <<>> THEN ScanLeading(ls, k + 1, rows)
         ELSE IF is_table_row(line) THEN ScanLeading(ls, k + 1, Append(rows, line))
         ELSE IF StartsWith(line, "#") THEN <<"heading", rows>>
         ELSE <<"break", rows>>

\* Mutant: a line that is neither blank nor a table row is skipped instead
\* of ending the scan.
RECURSIVE ScanLeadingSkipping(_, _, _)
ScanLeadingSkipping(ls, k, rows) ==
    IF k > Len(ls) \/ k > 5 THEN rows
    ELSE LET line == Strip(ls[k]) IN
         IF line # <<>> /\ is_table_row(line)
         THEN ScanLeadingSkipping(ls, k + 1, Append(rows, line))
         ELSE ScanLeadingSkipping(ls, k + 1, rows)

is_table_continuation_skipping(t) ==
    LET table_rows == ScanLeadingSkipping(Split(Strip(t)), 1, <<>>)
    IN  Len(table_rows) >= 2 /\ ~is_table_separator(table_rows[2])

is_table_continuation(t) ==
    LET ls   == Split(Strip(t))
        scan == ScanLeading(ls, 1, <<>>)
        table_rows == scan[2]
    IN  IF scan[1] = "heading" THEN FALSE
        ELSE IF Len(table_rows) >= 2
             THEN IF ~is_table_separator(table_rows[2]) THEN TRUE ELSE FALSE
             ELSE FALSE

\* The loop of _extract_table_header from line k on; header_lines is the
\* list of that name, which no statement fills.
RECURSIVE ExtractFrom(_, _, _)
ExtractFrom(ls, k, header_lines) ==
    IF k > Len(ls) THEN None
    ELSE IF is_table_row(ls[k])
         THEN IF k + 1 <= Len(ls) /\ is_table_separator(ls[k + 1])
              THEN ls[k] \o <<NL>> \o ls[k + 1]
              ELSE IF header_lines # <<>> THEN None
              ELSE ExtractFrom(ls, k + 1, header_lines)
         ELSE ExtractFrom(ls, k + 1, header_lines)

extract_table_header(t) == ExtractFrom(Split(t), 1, <<>>)

----------------------------------------------------------------------------
(* merge_cross_page_tables *)

\* Mutant: the appended page's text is joined without the line break.
MergePendingNoBreak(pend, page) ==
    IF is_table_continuation(page.text) /\ pend # <<>>
    THEN <<[text       |-> pend[1].text \o page.text,
            start_page |-> pend[1].start_page,
            end_page   |-> page.page]>>
    ELSE <<[text       |-> page.text,
            start_page |-> page.page,
            end_page   |-> page.page]>>

\* Mutant: a pending group with empty text counts as no pending group.
MergePendingFalsyEmpty(pend, page) ==
    IF is_table_continuation(page.text) /\ pend # <<>> /\ pend[1].text # <<>>
    THEN <<[text       |-> pend[1].text \o <<NL>> \o page.text,
            start_page |-> pend[1].start_page,
            end_page   |-> page.page]>>
    ELSE <<[text       |-> page.text,
            start_page |-> page.page,
            end_page   |-> page.page]>>

\* Mutant: appending a page leaves end_page as it was.
MergePendingStaleEnd(pend, page) ==
    IF is_table_continuation(page.text) /\ pend # <<>>
    THEN <<[text       |-> pend[1].text \o <<NL>> \o page.text,
            start_page |-> pend[1].start_page,
            end_page   |-> pend[1].end_page]>>
    ELSE <<[text       |-> page.text,
            start_page |-> page.page,
            end_page   |-> page.page]>>

\* One iteration of the loop over pages: the new value of pending.
MergePending(pend, page) ==
    IF is_table_continuation(page.text) /\ pend # <<>>
    THEN <<[text       |-> pend[1].text \o <<NL>> \o page.text,
            start_page |-> pend[1].start_page,
            end_page   |-> page.page]>>
    ELSE <<[text       |-> page.text,
            start_page |-> page.page,
            end_page   |-> page.page]>>

\* One iteration of the loop over pages: the new value of merged.
MergeFlushed(mrg, pend, page) ==
    IF is_table_continuation(page.text) /\ pend # <<>>
    THEN mrg
    ELSE IF pend # <<>> THEN Append(mrg, pend[1]) ELSE mrg

\* if not pages: return []
MergeEmpty ==
    /\ pc = "merge"
    /\ pages = <<>>
    /\ merged' = <<>>
    /\ pc' = "groups"
    /\ gi' = 0
    /\ all_chunks' = <<>>
    /\ UNCHANGED <<pages, max_chunk_size, overlap, result, idx, pending, chunkVars>>

MergePage ==
    /\ pc = "merge"
    /\ pages # <<>>
    /\ idx < Len(pages)
    /\ LET page == pages[idx + 1] IN
         /\ pending' = MergePending(pending, page)
         /\ merged' = MergeFlushed(merged, pending, page)
    /\ idx' = idx + 1
    /\ UNCHANGED <<pages, max_chunk_size, overlap, result, pc, gi, all_chunks, chunkVars>>

\* After the loop: append the last pending and return to process_pages.
MergeFinish ==
    /\ pc = "merge"
    /\ pages # <<>>
    /\ idx = Len(pages)
    /\ merged' = IF pending # <<>> THEN Append(merged, pending[1]) ELSE merged
    /\ pc' = "groups"
    /\ gi' = 0
    /\ all_chunks' = <<>>
    /\ UNCHANGED <<pages, max_chunk_size, overlap, result, idx, pending, chunkVars>>

----------------------------------------------------------------------------
(* chunk_with_table_context *)

\* metadata.get("section", "")
InitialSection(md) == IF "section" \in DOMAIN md THEN md.section ELSE <<>>

\* The dict literal {"text": .., "section": .., "table_header": .., **metadata}:
\* the keys of metadata are applied last.
MakeChunk(chunk_text, section, table_header, md) ==
    md @@ [text |-> chunk_text, section |-> section, table_header |-> table_header]

\* line.strip().lstrip("#").strip() when the line is a heading
SectionAfter(section, line) ==
    IF StartsWith(Strip(line), "#")
    THEN Strip(LStripHash(Strip(line)))
    ELSE section

HeaderAfter(header, line, next_line) ==
    IF is_table_header(line, next_line)
    THEN line \o <<NL>> \o next_line
    ELSE header

\* Mutant: the window is the last self.overlap lines of the buffer.
OverlapLinesConfigured(buf) ==
    LET overlap_start == IF Len(buf) - overlap > 0 THEN Len(buf) - overlap ELSE 0
    IN  SubSeq(buf, overlap_start + 1, Len(buf))

\* current_chunk_lines[max(0, len(current_chunk_lines) - 5):]
OverlapLines(buf) ==
    LET overlap_start == IF Len(buf) - 5 > 0 THEN Len(buf) - 5 ELSE 0
    IN  SubSeq(buf, overlap_start + 1, Len(buf))

\* The buffer a flush leaves behind.
CarryOver(buf, header, line) ==
    IF Truthy(header) /\ is_table_row(line)
    THEN Split(header) \o OverlapLines(buf)
    ELSE OverlapLines(buf)

\* sum(len(l) + 1 for l in ls)
RECURSIVE SizeOf(_)
SizeOf(ls) == IF ls = <<>> THEN 0 ELSE Len(Head(ls)) + 1 + SizeOf(Tail(ls))

\* Mutant: the buffer is flushed only when it has grown past max_chunk_size.
IsFullStrict(size) == size > max_chunk_size

\* The flush test
IsFull(size) == size >= max_chunk_size

\* One iteration of the while loop, flush included.
ScanLine ==
    /\ pc = "scan"
    /\ i < Len(lines)
    /\ LET line      == lines[i + 1]
           next_line == IF i + 1 < Len(lines) THEN lines[i + 2] ELSE None
           section   == SectionAfter(current_section, line)
           header    == HeaderAfter(current_table_header, line, next_line)
           buf       == Append(current_chunk_lines, line)
           size      == current_size + Len(line) + 1
       IN  /\ current_section' = section
           /\ current_table_header' = header
           /\ IF IsFull(size)
              THEN /\ chunks' = Append(chunks, MakeChunk(Join(buf), section, header, metadata))
                   /\ current_chunk_lines' = CarryOver(buf, header, line)
                   /\ current_size' = SizeOf(CarryOver(buf, header, line))
              ELSE /\ chunks' = chunks
                   /\ current_chunk_lines' = buf
                   /\ current_size' = size
    /\ i' = i + 1
    /\ UNCHANGED <<pages, max_chunk_size, overlap, result, pc, mergeVars, gi, all_chunks,
                   text, metadata, lines>>

\* Mutant: the function returns without emitting the buffer.
FinalEmitForgotten ==
    /\ pc = "scan"
    /\ i >= Len(lines)
    /\ pc' = "return"
    /\ UNCHANGED <<pages, max_chunk_size, overlap, result, mergeVars, gi, all_chunks,
                   chunkVars>>

\* After the loop: the last chunk, then return.
FinalEmit ==
    /\ pc = "scan"
    /\ i >= Len(lines)
    /\ chunks' = IF current_chunk_lines # <<>> /\ Strip(Join(current_chunk_lines)) # <<>>
                 THEN Append(chunks, MakeChunk(Join(current_chunk_lines), current_section,
                                               current_table_header, metadata))
                 ELSE chunks
    /\ pc' = "return"
    /\ UNCHANGED <<pages, max_chunk_size, overlap, result, mergeVars, gi, all_chunks, text, metadata,
                   lines, i, current_section, current_table_header,
                   current_chunk_lines, current_size>>

----------------------------------------------------------------------------
(* process_pages *)

\* Mutant: the group's first page is given as its last page too.
GroupMetadataStartOnly(page_data) ==
    [start_page |-> page_data.start_page, end_page |-> page_data.start_page]

GroupMetadata(page_data) ==
    [start_page |-> page_data.start_page, end_page |-> page_data.end_page]

\* The loop over merged_pages: the call of chunk_with_table_context.
StartGroup ==
    /\ pc = "groups"
    /\ gi < Len(merged)
    /\ LET page_data == merged[gi + 1] IN
         /\ text' = page_data.text
         /\ metadata' = GroupMetadata(page_data)
         /\ lines' = Split(page_data.text)
         /\ current_section' = InitialSection(GroupMetadata(page_data))
    /\ current_table_header' = None
    /\ current_chunk_lines' = <<>>
    /\ current_size' = 0
    /\ i' = 0
    /\ chunks' = <<>>
    /\ pc' = "scan"
    /\ UNCHANGED <<pages, max_chunk_size, overlap, result, mergeVars, gi, all_chunks>>

\* all_chunks.extend(chunks)
ExtendChunks ==
    /\ pc = "return"
    /\ all_chunks' = all_chunks \o chunks
    /\ gi' = gi + 1
    /\ pc' = "groups"
    /\ UNCHANGED <<pages, max_chunk_size, overlap, result, mergeVars, chunkVars>>

\* return all_chunks
ProcessDone ==
    /\ pc = "groups"
    /\ gi >= Len(merged)
    /\ pc' = "done"
    /\ UNCHANGED <<pages, max_chunk_size, overlap, result, mergeVars, gi, all_chunks, chunkVars>>

----------------------------------------------------------------------------
(* Inputs *)

MaxInputLines == 4
MaxPages == 3

RowLine     == <<"|", "a", "|">>
SepLine     == <<"|", "-", "|">>
HeadingLine == <<"#", "a">>
ProseLine   == <<"a", "a">>
BlankLine   == <<>>

PageLineSet == {RowLine, SepLine, HeadingLine, ProseLine, BlankLine}

\* The lines ls cut into page texts after each position in cuts.
RECURSIVE CutTexts(_, _, _, _)
CutTexts(ls, cuts, k, start) ==
    IF k > Len(ls) THEN <<>>
    ELSE IF k \in cuts \/ k = Len(ls)
         THEN <<Join(SubSeq(ls, start, k))>> \o CutTexts(ls, cuts, k + 1, k + 1)
         ELSE CutTexts(ls, cuts, k + 1, start)

\* Pages as the extractor numbers them: 1, 2, ...
NumberPages(texts) == [p \in 1..Len(texts) |-> [page |-> p, text |-> texts[p]]]

\* Every page sequence of at most MaxPages pages and MaxInputLines lines in all.
InputPages ==
    {<<>>} \cup
    UNION {{NumberPages(CutTexts(ls, cuts, 1, 1)) :
              ls \in [1..n -> PageLineSet],
              cuts \in {c \in SUBSET (1..(n - 1)) : Cardinality(c) < MaxPages}} :
           n \in 1..MaxInputLines}

SmallChunkSize == 7
DefaultChunkSize == 1500
DefaultOverlap == 200

PipelineSizes == {SmallChunkSize, DefaultChunkSize}

Init ==
    /\ pages \in InputPages
    /\ max_chunk_size \in PipelineSizes
    /\ overlap = DefaultOverlap
    /\ result = None
    /\ pc = "merge"
    /\ idx = 0
    /\ merged = <<>>
    /\ pending = <<>>
    /\ gi = 0
    /\ all_chunks = <<>>
    /\ text = <<>>
    /\ metadata = [start_page |-> 0, end_page |-> 0]
    /\ lines = <<>>
    /\ i = 0
    /\ current_section = <<>>
    /\ current_table_header = None
    /\ current_chunk_lines = <<>>
    /\ current_size = 0
    /\ chunks = <<>>

Next ==
    \/ MergeEmpty
    \/ MergePage
    \/ MergeFinish
    \/ StartGroup
    \/ ScanLine
    \/ FinalEmit
    \/ ExtendChunks
    \/ ProcessDone

Spec == Init /\ [][Next]_vars

----------------------------------------------------------------------------
(* chunk_with_table_context called on its own *)

MaxMixedLines == 4
MaxTableLines == 7
LargeChunkSize == 24

HeaderLine   == <<"|", "h", "|">>
DashRow      == <<"|", "-", "|", "a", "|">>
HeadingLineB == <<"#", " ", "b">>

\* Lines of every kind the chunker tells apart.
MixedLineSet ==
    {RowLine, SepLine, DashRow, ProseLine, HeadingLine, HeadingLineB, BlankLine}

\* Lines of tables and the prose around them.
TableLineSet == {HeaderLine, SepLine, RowLine, ProseLine}

TextsOver(lineSet, maxLines) ==
    UNION {{Join(ls) : ls \in [1..n -> lineSet]} : n \in 1..maxLines}

ChunkSizes == {1, SmallChunkSize, LargeChunkSize}

PlainMetadata == [start_page |-> 1, end_page |-> 2]

ChunkMetadata == {PlainMetadata, PlainMetadata @@ [section |-> <<"s">>]}

\* The state at the head of the while loop of chunk_with_table_context(t, md).
ChunkEntry(t, md) ==
    /\ text = t
    /\ metadata = md
    /\ lines = Split(t)
    /\ current_section = InitialSection(md)
    /\ current_table_header = None
    /\ current_chunk_lines = <<>>
    /\ current_size = 0
    /\ i = 0
    /\ chunks = <<>>

InitChunk ==
    /\ pages = <<>>
    /\ max_chunk_size \in ChunkSizes
    /\ overlap = DefaultOverlap
    /\ result = None
    /\ pc = "scan"
    /\ idx = 0
    /\ merged = <<>>
    /\ pending = <<>>
    /\ gi = 0
    /\ all_chunks = <<>>
    /\ \E t \in TextsOver(MixedLineSet, MaxMixedLines), md \in ChunkMetadata :
          ChunkEntry(t, md)

NextChunk ==
    \/ ScanLine
    \/ FinalEmit

\* chunk_with_table_context on short texts of lines of every kind.
SpecChunk == InitChunk /\ [][NextChunk]_vars

InitTable ==
    /\ pages = <<>>
    /\ max_chunk_size \in ChunkSizes
    /\ overlap = DefaultOverlap
    /\ result = None
    /\ pc = "scan"
    /\ idx = 0
    /\ merged = <<>>
    /\ pending = <<>>
    /\ gi = 0
    /\ all_chunks = <<>>
    /\ \E t \in TextsOver(TableLineSet, MaxTableLines) :
          ChunkEntry(t, PlainMetadata)

\* chunk_with_table_context on longer texts of tables and prose.
SpecTable == InitTable /\ [][NextChunk]_vars

MaxLongLines == 4

LongRow == <<"|", "a", "a", "a", "a", "a", "a", "a", "a", "a", "|">>

\* Lines of one table, one of them longer than every max_chunk_size tried.
LongLineSet == {HeaderLine, SepLine, RowLine, LongRow}

LongSizes == SmallChunkSize..(SmallChunkSize + 2)

InitLong ==
    /\ pages = <<>>
    /\ max_chunk_size \in LongSizes
    /\ overlap = DefaultOverlap
    /\ result = None
    /\ pc = "scan"
    /\ idx = 0
    /\ merged = <<>>
    /\ pending = <<>>
    /\ gi = 0
    /\ all_chunks = <<>>
    /\ \E t \in TextsOver(LongLineSet, MaxLongLines) :
          ChunkEntry(t, PlainMetadata)

\* chunk_with_table_context on tables with a row longer than max_chunk_size.
SpecLong == InitLong /\ [][NextChunk]_vars

MaxOverlapLines == 7

OverlapLineSet == {RowLine, SepLine, ProseLine}

\* Values of the overlap argument, below and above the 5 lines of the window.
OverlapValues == {0, 2, DefaultOverlap}

InitOverlap ==
    /\ pages = <<>>
    /\ max_chunk_size \in ChunkSizes
    /\ overlap \in OverlapValues
    /\ result = None
    /\ pc = "scan"
    /\ idx = 0
    /\ merged = <<>>
    /\ pending = <<>>
    /\ gi = 0
    /\ all_chunks = <<>>
    /\ \E t \in TextsOver(OverlapLineSet, MaxOverlapLines) :
          ChunkEntry(t, PlainMetadata)

\* chunk_with_table_context of chunkers that differ in overlap.
SpecOverlap == InitOverlap /\ [][NextChunk]_vars

----------------------------------------------------------------------------
(* The helper methods called on their own *)

MaxHelperLines == 6

\* Lines of every kind the helpers tell apart.
HelperLineSet == {RowLine, SepLine, DashRow, HeadingLine, ProseLine, BlankLine}

InitHelper ==
    /\ pages = <<>>
    /\ max_chunk_size = DefaultChunkSize
    /\ overlap = DefaultOverlap
    /\ result = None
    /\ pc = "call"
    /\ idx = 0
    /\ merged = <<>>
    /\ pending = <<>>
    /\ gi = 0
    /\ all_chunks = <<>>
    /\ \E t \in TextsOver(HelperLineSet, MaxHelperLines) :
          ChunkEntry(t, PlainMetadata)

helperFrame ==
    <<pages, max_chunk_size, overlap, mergeVars, gi, all_chunks, text, metadata,
      lines, current_section, current_table_header, current_chunk_lines,
      current_size, chunks>>

\* self._is_table_separator(lines[k])
CallIsTableSeparator ==
    /\ pc = "call"
    /\ \E k \in 0..(Len(lines) - 1) :
          /\ i' = k
          /\ result' = is_table_separator(lines[k + 1])
    /\ pc' = "_is_table_separator"
    /\ UNCHANGED helperFrame

\* self._is_table_header(line, next_line) on a line and the line after it
CallIsTableHeader ==
    /\ pc = "call"
    /\ \E k \in 0..(Len(lines) - 1) :
          /\ i' = k
          /\ result' = is_table_header(lines[k + 1],
                           IF k + 1 < Len(lines) THEN lines[k + 2] ELSE None)
    /\ pc' = "_is_table_header"
    /\ UNCHANGED helperFrame

\* self._is_table_continuation(text)
CallIsTableContinuation ==
    /\ pc = "call"
    /\ result' = is_table_continuation(text)
    /\ pc' = "_is_table_continuation"
    /\ UNCHANGED <<helperFrame, i>>

\* self._extract_table_header(text)
CallExtractTableHeader ==
    /\ pc = "call"
    /\ result' = extract_table_header(text)
    /\ pc' = "_extract_table_header"
    /\ UNCHANGED <<helperFrame, i>>

NextHelper ==
    \/ CallIsTableSeparator
    \/ CallIsTableHeader
    \/ CallIsTableContinuation
    \/ CallExtractTableHeader

SpecHelper == InitHelper /\ [][NextHelper]_vars

----------------------------------------------------------------------------
(* Properties of merge_cross_page_tables *)

\* The text fields of a sequence of pages or groups, in order.
Texts(rs) == [k \in 1..Len(rs) |-> rs[k].text]

\* merge_cross_page_tables has returned.
MergeReturned == pc # "merge"

\* The first line of t that holds a non-whitespace character, or None.
RECURSIVE FirstNonBlank(_)
FirstNonBlank(ls) ==
    IF ls = <<>> THEN None
    ELSE IF \E k \in 1..Len(Head(ls)) : ~IsSpace(Head(ls)[k]) THEN Head(ls)
    ELSE FirstNonBlank(Tail(ls))

\* The first non-blank line of t starts with the heading marker.
StartsWithHeading(t) ==
    LET line == FirstNonBlank(Split(t))
    IN  line # None /\ StartsWith(LStrip(line), "#")

\* Position in the input of the page numbered n (0 if there is none).
PagePos(n) ==
    IF \E k \in 1..Len(pages) : pages[k].page = n
    THEN CHOOSE k \in 1..Len(pages) : pages[k].page = n
    ELSE 0

\* C1: the texts of the groups returned by merge_cross_page_tables, joined
\* in output order with "\n", are the texts of the input pages joined in
\* input order with "\n".
C1_MergePreservesText ==
    MergeReturned => Join(Texts(merged)) = Join(Texts(pages))

\* C1 witness: three pages were merged into two groups.
C1_Witness ==
    /\ MergeReturned
    /\ Len(pages) = 3
    /\ Len(merged) = 2

\* C2: a loop iteration on a continuation page that is not the first page
\* appends it to the group in progress (text + "\n" + page text, end_page the
\* page's number, start_page kept, nothing flushed); an iteration on any
\* other page flushes the group in progress, if there is one, and starts a
\* group with start_page = end_page = the page's number.
C2_Step ==
    (pc = "merge" /\ idx' = idx + 1) =>
        LET page == pages[idx + 1] IN
        IF is_table_continuation(page.text) /\ idx > 0
        THEN /\ Len(pending) = 1 /\ Len(pending') = 1
             /\ pending'[1].text = pending[1].text \o <<NL>> \o page.text
             /\ pending'[1].end_page = page.page
             /\ pending'[1].start_page = pending[1].start_page
             /\ merged' = merged
        ELSE /\ merged' = merged \o pending
             /\ pending' = <<[text |-> page.text, start_page |-> page.page,
                              end_page |-> page.page]>>

C2_MergeStep == [][C2_Step]_vars

\* C2 witness: the first page is a continuation page and has started a
\* group of its own; the second page, a continuation page too, has been
\* appended to it.
C2_Witness ==
    /\ pc = "merge"
    /\ idx = 2
    /\ is_table_continuation(pages[1].text)
    /\ is_table_continuation(pages[2].text)
    /\ merged = <<>>
    /\ pending[1].start_page = pages[1].page
    /\ pending[1].end_page = pages[2].page

\* C6: every page whose first non-blank line starts with "#" starts a group
\* of its own in the result of merge_cross_page_tables.
C6_HeadingStartsGroup ==
    MergeReturned =>
        \A k \in 1..Len(pages) :
            StartsWithHeading(pages[k].text) =>
                \E g \in 1..Len(merged) : merged[g].start_page = pages[k].page

\* C6 witness: a page after the first starts with a heading that is followed
\* by two table rows without a separator, and the group before it is a
\* table.
C6_Witness ==
    /\ MergeReturned
    /\ Len(pages) >= 2
    /\ pages[1].text = RowLine
    /\ pages[2].text = Join(<<HeadingLine, RowLine, RowLine>>)
    /\ Len(merged) = 2

\* C7: every group has start_page <= end_page, both numbers of input pages;
\* the first group starts at the first page, each next group starts at the
\* page that follows the end of the group before it, and the last group
\* ends at the last page.
C7_GroupsPartitionPages ==
    MergeReturned =>
        /\ (merged = <<>>) = (pages = <<>>)
        /\ \A g \in 1..Len(merged) :
              /\ merged[g].start_page <= merged[g].end_page
              /\ PagePos(merged[g].start_page) >= 1
              /\ PagePos(merged[g].start_page) <= PagePos(merged[g].end_page)
              /\ PagePos(merged[g].start_page) =
                    (IF g = 1 THEN 1 ELSE PagePos(merged[g - 1].end_page) + 1)
              /\ g = Len(merged) => PagePos(merged[g].end_page) = Len(pages)

\* C7 witness: three pages in two groups, the first of them of two pages.
C7_Witness ==
    /\ MergeReturned
    /\ Len(pages) = 3
    /\ Len(merged) = 2
    /\ merged[1].start_page = 1
    /\ merged[1].end_page = 2
    /\ merged[2].start_page = 3

----------------------------------------------------------------------------
(* Properties of the helper methods *)

\* Table row as the glossary defines it: the trimmed line begins with "|"
\* and holds at least one more "|".
TableRow(line) ==
    /\ StartsWith(Strip(line), "|")
    /\ \E k \in 2..Len(Strip(line)) : Strip(line)[k] = "|"

\* Table separator as the glossary defines it: a table row that, between
\* its first and its last pipe, holds only dashes, colons, whitespace and
\* the pipes between cells.
TableSeparator(line) ==
    LET s == Strip(line) IN
    /\ TableRow(line)
    /\ s[Len(s)] = "|"
    /\ \A k \in 1..Len(s) : s[k] = "|" \/ SepClass(s[k])

\* Separator detection is right about every line of the text.
SeparatorsDetected(ls) ==
    \A j \in 1..Len(ls) : is_table_separator(ls[j]) = TableSeparator(ls[j])

NotBlank(line) == Strip(line) # <<>>

\* The first min(5, n) of the n non-blank lines of a text.
FirstFiveNonBlank(t) ==
    LET nb == SelectSeq(Split(t), NotBlank)
    IN  SubSeq(nb, 1, IF Len(nb) > 5 THEN 5 ELSE Len(nb))

\* The leading run of table rows of ls.
RECURSIVE LeadingRows(_)
LeadingRows(ls) ==
    IF ls # <<>> /\ TableRow(Head(ls)) THEN <<Head(ls)>> \o LeadingRows(Tail(ls))
    ELSE <<>>

ContinuationAsClaimed(t) ==
    LET first == FirstFiveNonBlank(t)
        run   == LeadingRows(first)
    IN  /\ first # <<>> => ~StartsWith(Strip(first[1]), "#")
        /\ Len(run) >= 2
        /\ ~TableSeparator(run[2])

\* C12: _is_table_continuation(text) is true exactly when the first
\* non-blank line is not a heading and the leading run of table rows among
\* the first 5 non-blank lines has at least 2 lines, the second of them not
\* a separator.  (Stated for texts on which separator detection is right.)
C12_ContinuationExact ==
    (pc = "_is_table_continuation" /\ SeparatorsDetected(lines)) =>
        result = ContinuationAsClaimed(text)

\* A table row that is not a separator.
DataRow(line) == TableRow(line) /\ ~TableSeparator(line)

\* _is_table_separator is true exactly for the separator rows.
C13_Exact ==
    pc = "_is_table_separator" => result = TableSeparator(lines[i + 1])

\* Header detection takes no data row for a separator: a line is a header
\* only if the line after it is a separator row.
C13_Header ==
    pc = "_is_table_header" =>
        (result => i + 1 < Len(lines) /\ TableSeparator(lines[i + 2]))

\* Continuation detection takes no data row for a separator: a text without
\* headings whose first two lines are table rows, the second a data row, is
\* a continuation.
C13_Continuation ==
    (/\ pc = "_is_table_continuation"
     /\ Len(lines) >= 2
     /\ TableRow(lines[1])
     /\ DataRow(lines[2])
     /\ \A k \in 1..Len(lines) : ~StartsWith(Strip(lines[k]), "#"))
    => result

\* C13: _is_table_separator(line) is true exactly for rows all of whose
\* cells hold only dashes, colons and whitespace, so that neither header
\* detection nor continuation detection takes a data row for a separator.
C13_SeparatorExact == C13_Exact /\ C13_Header /\ C13_Continuation

\* The header the claim describes: the first table row of ls[k..] decides;
\* followed by a separator it is returned with it, otherwise the result is
\* null.
RECURSIVE HeaderAsClaimed(_, _)
HeaderAsClaimed(ls, k) ==
    IF k > Len(ls) THEN None
    ELSE IF TableRow(ls[k])
         THEN IF k < Len(ls) /\ TableSeparator(ls[k + 1])
              THEN ls[k] \o <<NL>> \o ls[k + 1]
              ELSE None
         ELSE HeaderAsClaimed(ls, k + 1)

\* C14: _extract_table_header(text) returns the first table row that is
\* immediately followed by a separator, joined to the separator by "\n", and
\* null when a table row not followed by a separator comes before any such
\* pair, also when a pair occurs later in the text.  (Stated for texts on
\* which separator detection is right.)
C14_FirstHeaderOrNull ==
    (pc = "_extract_table_header" /\ SeparatorsDetected(lines)) =>
        result = HeaderAsClaimed(lines, 1)

----------------------------------------------------------------------------
(* Properties of process_pages *)

\* The set of lines of a text.
LineSet(t) == {Split(t)[k] : k \in 1..Len(Split(t))}

\* Chunk c carries the page range of group g and is made of lines of g.
CutFrom(c, g) ==
    /\ c.start_page = g.start_page
    /\ c.end_page = g.end_page
    /\ LineSet(c.text) \subseteq LineSet(g.text)

C8_Pages ==
    /\ \A k \in 1..Len(all_chunks) :
          \E g \in 1..Len(merged) :
              /\ g <= gi
              /\ CutFrom(all_chunks[k], merged[g])
    /\ \A k \in 1..(Len(all_chunks) - 1) :
          all_chunks[k].start_page <= all_chunks[k + 1].start_page
    /\ pc \in {"scan", "return"} =>
          \A k \in 1..Len(chunks) : CutFrom(chunks[k], merged[gi + 1])

C8_Order ==
    /\ chunks' # chunks /\ pc = "scan" =>
          /\ Len(chunks') = Len(chunks) + 1
          /\ SubSeq(chunks', 1, Len(chunks)) = chunks
    /\ all_chunks' # all_chunks =>
          /\ all_chunks' = all_chunks \o chunks
          /\ gi' = gi + 1

\* C8: every chunk of process_pages carries the start_page and end_page of
\* the group whose text it was cut from; start_page never decreases along
\* the output; a chunk, once created, keeps its place behind the chunks
\* created before it, and a group's chunks are added to the output in that
\* order, group after group.
C8_ChunksCarryGroupPages == []C8_Pages /\ [][C8_Order]_vars

\* C8 witness: process_pages has returned the chunks of two groups, the
\* first a group of two pages cut into more than one chunk.
C8_Witness ==
    /\ pc = "done"
    /\ Len(merged) = 2
    /\ merged[1].start_page < merged[1].end_page
    /\ Len(all_chunks) >= 3
    /\ all_chunks[1].end_page = merged[1].end_page
    /\ all_chunks[2].end_page = merged[1].end_page
    /\ all_chunks[Len(all_chunks)].start_page = merged[2].start_page

----------------------------------------------------------------------------
(* Properties of chunk_with_table_context *)

ChunkLines(c) == Split(c.text)

\* The last min(5, n) lines of a buffer of n lines.
LastFive(ls) == SubSeq(ls, IF Len(ls) > 5 THEN Len(ls) - 4 ELSE 1, Len(ls))

IsPrefix(a, b) == Len(a) <= Len(b) /\ SubSeq(b, 1, Len(a)) = a

\* The text is one table from its first to its last line: a header row, a
\* separator row, then data rows.
OneTable(ls) ==
    /\ Len(ls) >= 2
    /\ \A j \in 1..Len(ls) : TableRow(ls[j])
    /\ \A j \in 1..Len(ls) : TableSeparator(ls[j]) = (j = 2)

\* A chunk emitted by a flush on a table row while a header was captured is
\* followed by a chunk that begins with the header's two lines and then the
\* last five lines of the flushed buffer.
C3_Reinjected ==
    \A k \in 1..(Len(chunks) - 1) :
        LET ls  == ChunkLines(chunks[k])
            hdr == chunks[k].table_header
        IN  (TableRow(ls[Len(ls)]) /\ hdr # None) =>
                /\ Len(Split(hdr)) = 2
                /\ IsPrefix(Split(hdr) \o LastFive(ls), ChunkLines(chunks[k + 1]))

\* For a text that is one table, every chunk after the first begins with
\* the table's header row and separator row.
C3_OneTable ==
    OneTable(lines) =>
        \A k \in 2..Len(chunks) : IsPrefix(<<lines[1], lines[2]>>, ChunkLines(chunks[k]))

\* C3: after a flush triggered by a table row while a table header is
\* captured, the next chunk begins with the header's two lines ahead of the
\* carried-over lines; and for a text that is one table from first to last
\* line every chunk after the first begins with the header captured at the
\* table's first appearance.
C3_HeaderReinjected == C3_Reinjected /\ C3_OneTable

\* Every run of consecutive table rows of the text starts with a header row
\* and a separator row, followed by data rows only.
RunStart(ls, j) == TableRow(ls[j]) /\ (j = 1 \/ ~TableRow(ls[j - 1]))

RunSecond(ls, j) == j > 1 /\ TableRow(ls[j]) /\ RunStart(ls, j - 1)

DataRowAt(ls, j) == TableRow(ls[j]) /\ ~RunStart(ls, j) /\ ~RunSecond(ls, j)

HeaderRows(ls) == {ls[j] : j \in {n \in 1..Len(ls) : RunStart(ls, n)}}

DataRows(ls) == {ls[j] : j \in {n \in 1..Len(ls) : DataRowAt(ls, n)}}

TablesHaveHeaders(ls) ==
    /\ \A j \in 1..Len(ls) :
          /\ RunStart(ls, j)  => ~TableSeparator(ls[j])
          /\ RunStart(ls, j)  => j < Len(ls) /\ TableRow(ls[j + 1])
          /\ RunSecond(ls, j) => TableSeparator(ls[j])
          /\ DataRowAt(ls, j) => ~TableSeparator(ls[j])
    /\ HeaderRows(ls) \cap DataRows(ls) = {}

\* C4: in a text all of whose tables start with a header row and a
\* separator row, every data row inside a chunk's text has, earlier in that
\* chunk's text, a header row immediately followed by a separator row.
\* (Stated for texts on which separator detection is right.)
C4_HeaderWithBody ==
    (TablesHaveHeaders(lines) /\ SeparatorsDetected(lines)) =>
        \A k \in 1..Len(chunks) :
            LET ls == ChunkLines(chunks[k]) IN
            \A j \in 1..Len(ls) :
                ls[j] \in DataRows(lines) =>
                    \E h \in 1..(j - 2) :
                        /\ ls[h] \in HeaderRows(lines)
                        /\ TableSeparator(ls[h + 1])

\* C5: the text of every chunk is shorter than max_chunk_size plus the
\* length of the chunk's last line plus one.
C5_SoftBound ==
    \A k \in 1..Len(chunks) :
        LET ls == ChunkLines(chunks[k]) IN
        Len(chunks[k].text) < max_chunk_size + Len(ls[Len(ls)]) + 1

\* The heading text of the last heading line among ls[1..e], or None.
RECURSIVE LastHeading(_, _)
LastHeading(ls, e) ==
    IF e = 0 THEN None
    ELSE IF StartsWith(Strip(ls[e]), "#") THEN Strip(LStripHash(Strip(ls[e])))
    ELSE LastHeading(ls, e - 1)

\* The section a chunk whose last line is line e of the text is to carry.
SectionAt(ls, e, md) ==
    IF LastHeading(ls, e) # None THEN LastHeading(ls, e)
    ELSE IF "section" \in DOMAIN md THEN md.section
    ELSE <<>>

\* The step emits a chunk; its last line is line e of the text.
Emits == chunks' # chunks

EmittedAt == IF pc' = "return" THEN Len(lines) ELSE i + 1

C9_Step ==
    Emits => chunks'[Len(chunks')].section = SectionAt(lines, EmittedAt, metadata)

\* C9: a chunk's section is the heading text of the last heading line
\* scanned up to and including the chunk's last line, or base_metadata's
\* section (empty if absent) when no heading line has been scanned, whether
\* or not base_metadata has a section entry.
C9_SectionIsCurrent == [][C9_Step]_vars

\* C10: a chunk whose text holds no table row has table_header null, and a
\* table_header that is not null is a header row and a separator row.
\* (Stated for texts whose tables start with a header row and a separator
\* row and on which separator detection is right.)
C10_HeaderOfOwnTable ==
    (TablesHaveHeaders(lines) /\ SeparatorsDetected(lines)) =>
        \A k \in 1..Len(chunks) :
            LET ls  == ChunkLines(chunks[k])
                hdr == chunks[k].table_header
            IN  /\ (\A j \in 1..Len(ls) : ~TableRow(ls[j])) => hdr = None
                /\ hdr # None =>
                      /\ Len(Split(hdr)) = 2
                      /\ TableRow(Split(hdr)[1])
                      /\ TableSeparator(Split(hdr)[2])

\* chunk_with_table_context has returned the chunks of a text that is one
\* table and is more than twice max_chunk_size long.
LongTableChunked ==
    /\ pc = "return"
    /\ OneTable(lines)
    /\ Len(text) > 2 * max_chunk_size

\* C11 as stated: a text that is one table and is more than twice
\* max_chunk_size long is cut into at least 3 chunks, whatever the lengths
\* of its lines.
C11_AtLeastThreeChunks == LongTableChunked => Len(chunks) >= 3

\* C11 amended: such a text is cut into at least 2 chunks, and into at least
\* 3 when the lines before its last line, each counted with its line break,
\* amount to max_chunk_size or more.
C11_ChunkCount ==
    LongTableChunked =>
        /\ Len(chunks) >= 2
        /\ SizeOf(SubSeq(lines, 1, Len(lines) - 1)) >= max_chunk_size
              => Len(chunks) >= 3

\* C11 witness: a header row, a separator row and one long row, the whole
\* more than twice max_chunk_size, have been cut into 2 chunks.
C11_Witness ==
    /\ LongTableChunked
    /\ lines = <<HeaderLine, SepLine, LongRow>>
    /\ Len(chunks) = 2

\* The chunks of the lines ls[k..] for a chunker whose window is the last 5
\* lines, the buffer being buf: no argument is the configured overlap.
RECURSIVE ChunksFrom(_, _, _, _, _, _, _)
ChunksFrom(ls, k, buf, section, header, md, size) ==
    IF k > Len(ls)
    THEN IF buf # <<>> /\ Strip(Join(buf)) # <<>>
         THEN <<MakeChunk(Join(buf), section, header, md)>>
         ELSE <<>>
    ELSE LET line == ls[k]
             sec  == SectionAfter(section, line)
             hdr  == HeaderAfter(header, line, IF k < Len(ls) THEN ls[k + 1] ELSE None)
             full == Append(buf, line)
             pre  == IF Truthy(hdr) /\ is_table_row(line) THEN Split(hdr) ELSE <<>>
         IN  IF SizeOf(full) >= size
             THEN <<MakeChunk(Join(full), sec, hdr, md)>>
                  \o ChunksFrom(ls, k + 1, pre \o LastFive(full), sec, hdr, md, size)
             ELSE ChunksFrom(ls, k + 1, full, sec, hdr, md, size)

\* The chunks returned are those of the 5-line window, whatever the overlap.
C15_Output ==
    pc = "return" =>
        chunks = ChunksFrom(Split(text), 1, <<>>, InitialSection(metadata), None,
                            metadata, max_chunk_size)

\* A flush emits the buffer and carries its last min(5, n) lines, behind
\* the header's lines if the header is re-injected.
C15_Step ==
    (pc = "scan" /\ pc' = "scan" /\ chunks' # chunks) =>
        LET buf == Append(current_chunk_lines, lines[i + 1]) IN
        /\ chunks' = Append(chunks, chunks'[Len(chunks')])
        /\ ChunkLines(chunks'[Len(chunks')]) = buf
        /\ \/ current_chunk_lines' = LastFive(buf)
           \/ /\ current_table_header' # None
              /\ current_chunk_lines' = Split(current_table_header') \o LastFive(buf)
        /\ overlap' = overlap

InChunks(line) ==
    \E c \in 1..Len(chunks) :
        \E j \in 1..Len(ChunkLines(chunks[c])) : ChunkLines(chunks[c])[j] = line

\* The line is a line of the buffer.
InBuffer(line) ==
    \E j \in 1..Len(current_chunk_lines) : current_chunk_lines[j] = line

\* C16: every line of the text that holds a non-whitespace character is,
\* once scanned, a line of an emitted chunk or of the buffer, and when
\* chunk_with_table_context returns it is a line of the text of a chunk.
C16_NoContentLost ==
    /\ pc = "scan" =>
          \A k \in 1..i : NotBlank(lines[k]) => InChunks(lines[k]) \/ InBuffer(lines[k])
    /\ pc = "return" =>
          \A k \in 1..Len(lines) : NotBlank(lines[k]) => InChunks(lines[k])

\* C16 witness: a text with a blank line between non-blank lines has been
\* cut by flushes and the final emit, and its last line is not blank.
C16_Witness ==
    /\ pc = "return"
    /\ Len(lines) = 4
    /\ Len(chunks) >= 2
    /\ ~NotBlank(lines[3])
    /\ NotBlank(lines[1]) /\ NotBlank(lines[2]) /\ NotBlank(lines[4])

====
